---- MODULE Spec2Model ----
(***************************************************************************)
(* GPU credit ledger (src/gpu_credit.py, class CreditSystem, and its       *)
(* refactoring with event classes, class GpuCreditSystem).                 *)
(*                                                                         *)
(* createGrant and subtract append timestamped events to event_log;        *)
(* getBalance(ts) rebuilds the balance from scratch by replaying the       *)
(* events with timestamp <= ts, in timestamp order (stable sort), through  *)
(* a min-heap of (exp_ts, remaining_amount) buckets.                       *)
(***************************************************************************)
EXTENDS Integers, Sequences, FiniteSets

VARIABLES
    event_log,       \* self.event_log: the recorded events, in recording order
    call,            \* the last call made on the ledger, with its arguments
    result,          \* what that call returned, or the exception it raised
    active_credits,  \* getBalance's local heap as the last getBalance left it
    seen,            \* history: <<ts, result, repeated>> of every query made
                     \* since the log last changed, repeated telling a query
                     \* of a timestamp already queried (kept by SpecObserved)
    gpu_event_log,   \* self.event_log of a GpuCreditSystem given the same calls
    gpu_result       \* what the last call returned or raised on it
                     \* (both driven by SpecBoth)

vars == <<event_log, call, result, active_credits, seen, gpu_event_log, gpu_result>>

----------------------------------------------------------------------------
(* Bounds of the model.                                                    *)

\* longest event log explored by Spec
MaxLog == 3
\* event timestamps and query timestamps range over 0..MaxTs
MaxTs == 2
\* grant amounts range over 1..MaxAmount, spend amounts over 0..MaxAmount
MaxAmount == 2
\* longest event log explored by SpecObserved
MaxLogObserved == 2
\* longest event log explored by SpecScenario
MaxLogScenario == 4

Timestamps == 0 .. MaxTs
\* expiry timestamps: one instant beyond the last timestamp, so that a grant
\* can outlive every query
ExpiryTimestamps == 0 .. (MaxTs + 1)
GrantAmounts == 1 .. MaxAmount
SpendAmounts == 0 .. MaxAmount
GrantIds == {"a", "b"}

----------------------------------------------------------------------------
(* Events and results.                                                     *)

\* ("GRANT", amount, ts, exp_ts)
GrantEvent(amount, ts, exp_ts) == <<"GRANT", amount, ts, exp_ts>>

\* ("SUBTRACT", amount, ts)
SubtractEvent(amount, ts) == <<"SUBTRACT", amount, ts>>

\* e[0], e[1], e[2], e[3] of the source (tuples are 1-based here)
EventType(e) == e[1]
EventAmount(e) == e[2]
EventTs(e) == e[3]
EventExpTs(e) == e[4]

\* a call that returns nothing
None == <<"None">>
\* getBalance returning a number
Balance(n) == <<"Balance", n>>
\* getBalance raising InsufficientCreditException
InsufficientCreditException == <<"InsufficientCreditException">>

----------------------------------------------------------------------------
(* The heap of (exp_ts, remaining_amount) tuples.  Python compares tuples  *)
(* lexicographically; heappop always returns the least tuple, so the heap  *)
(* is kept here as the sequence of its tuples in ascending order.          *)

\* mutant: the comparison reversed, the heap yields the latest expiry first
TupleLess_reversed(a, b) == b[1] < a[1] \/ (b[1] = a[1] /\ b[2] < a[2])

TupleLess(a, b) == a[1] < b[1] \/ (a[1] = b[1] /\ a[2] < b[2])

\* mutant: one bucket per expiry timestamp, a push for an expiry timestamp
\* that has a bucket overwrites its amount
RECURSIVE heappush_keyed(_, _)
heappush_keyed(heap, item) ==
    IF heap = <<>> THEN <<item>>
    ELSE IF item[1] = Head(heap)[1] THEN <<item>> \o Tail(heap)
    ELSE IF item[1] < Head(heap)[1] THEN <<item>> \o heap
    ELSE <<Head(heap)>> \o heappush_keyed(Tail(heap), item)

RECURSIVE heappush(_, _)
heappush(heap, item) ==
    IF heap = <<>> THEN <<item>>
    ELSE IF TupleLess(item, Head(heap)) THEN <<item>> \o heap
    ELSE <<Head(heap)>> \o heappush(Tail(heap), item)

\* heappop(heap): the least tuple, and the heap without it
heappop(heap) == [item |-> Head(heap), heap |-> Tail(heap)]

\* mutant: a bucket is still usable at the instant it expires (< for <=)
RECURSIVE expire_credits_strict(_, _)
expire_credits_strict(heap, up_to_ts) ==
    IF heap # <<>> /\ heap[1][1] < up_to_ts
    THEN expire_credits_strict(Tail(heap), up_to_ts)
    ELSE heap

\* mutant: an if in place of the while, so that one expired bucket at most is
\* popped per call
expire_credits_once(heap, up_to_ts) ==
    IF heap # <<>> /\ heap[1][1] <= up_to_ts
    THEN heappop(heap).heap
    ELSE heap

RECURSIVE expire_credits(_, _)
expire_credits(heap, up_to_ts) ==
    IF heap # <<>> /\ heap[1][1] <= up_to_ts
    THEN expire_credits(heappop(heap).heap, up_to_ts)
    ELSE heap

RECURSIVE SumAmounts(_)
SumAmounts(heap) ==
    IF heap = <<>> THEN 0 ELSE Head(heap)[2] + SumAmounts(Tail(heap))

----------------------------------------------------------------------------
(* getBalance.                                                             *)

\* mutant: events at the query timestamp itself are left out (< for <=)
EligibleEvents_strict(log, ts) == SelectSeq(log, LAMBDA e : EventTs(e) < ts)

\* mutant: no filter, the replay also sees the events after the query timestamp
EligibleEvents_unfiltered(log, ts) == log

\* mutant: the filter keeps the events from the query timestamp on
EligibleEvents_from_query_on(log, ts) == SelectSeq(log, LAMBDA e : EventTs(e) >= ts)

\* [e for e in self.event_log if e[2] <= ts]
EligibleEvents(log, ts) == SelectSeq(log, LAMBDA e : EventTs(e) <= ts)

\* mutant: an unstable sort, in which an event goes before the events already
\* placed that share its timestamp
RECURSIVE InsertByTs_unstable(_, _)
InsertByTs_unstable(sorted, e) ==
    IF sorted = <<>> THEN <<e>>
    ELSE IF EventTs(sorted[Len(sorted)]) < EventTs(e) THEN Append(sorted, e)
    ELSE Append(InsertByTs_unstable(SubSeq(sorted, 1, Len(sorted) - 1), e),
                sorted[Len(sorted)])

\* list.sort(key=lambda e: e[2]) is stable: an event goes after every event
\* already placed whose timestamp is less than or equal to its own
RECURSIVE InsertByTs(_, _)
InsertByTs(sorted, e) ==
    IF sorted = <<>> THEN <<e>>
    ELSE IF EventTs(sorted[Len(sorted)]) <= EventTs(e) THEN Append(sorted, e)
    ELSE Append(InsertByTs(SubSeq(sorted, 1, Len(sorted) - 1), e),
                sorted[Len(sorted)])

RECURSIVE SortByTs(_)
SortByTs(events) ==
    IF events = <<>> THEN <<>>
    ELSE InsertByTs(SortByTs(SubSeq(events, 1, Len(events) - 1)),
                    events[Len(events)])

\* mutant: the sort key is the amount, e[1], instead of the timestamp, e[2]
RECURSIVE InsertByAmount(_, _)
InsertByAmount(sorted, e) ==
    IF sorted = <<>> THEN <<e>>
    ELSE IF EventAmount(sorted[Len(sorted)]) <= EventAmount(e) THEN Append(sorted, e)
    ELSE Append(InsertByAmount(SubSeq(sorted, 1, Len(sorted) - 1), e),
                sorted[Len(sorted)])

RECURSIVE SortByAmount(_)
SortByAmount(events) ==
    IF events = <<>> THEN <<>>
    ELSE InsertByAmount(SortByAmount(SubSeq(events, 1, Len(events) - 1)),
                        events[Len(events)])

eligible_events_by_amount(log, ts) == SortByAmount(EligibleEvents(log, ts))

\* mutant: no sort, the events are replayed in recording order
eligible_events_unsorted(log, ts) == EligibleEvents(log, ts)

eligible_events(log, ts) == SortByTs(EligibleEvents(log, ts))

\* mutant: a spend is served from the first bucket alone, with no carry-over
\* of the unmet remainder to the next bucket
SpendCredits_single_bucket(heap, amount_to_spend) ==
    IF amount_to_spend > 0
    THEN IF heap = <<>> \/ Head(heap)[2] < amount_to_spend
         THEN [raised |-> TRUE, heap |-> heap]
         ELSE IF Head(heap)[2] > amount_to_spend
              THEN [raised |-> FALSE,
                    heap |-> <<<<Head(heap)[1], Head(heap)[2] - amount_to_spend>>>>
                                 \o Tail(heap)]
              ELSE [raised |-> FALSE, heap |-> Tail(heap)]
    ELSE [raised |-> FALSE, heap |-> heap]

\* mutant: a loop that tests amount_to_spend > 0 at its end, so that a spend
\* of 0 raises when no bucket is active
RECURSIVE SpendCredits_raise_on_empty(_, _)
SpendCredits_raise_on_empty(heap, amount_to_spend) ==
    IF heap = <<>>
    THEN [raised |-> TRUE, heap |-> heap]
    ELSE LET popped == heappop(heap)
             exp_ts == popped.item[1]
             available == popped.item[2]
         IN  IF available > amount_to_spend
             THEN [raised |-> FALSE,
                   heap |-> heappush(popped.heap,
                                     <<exp_ts, available - amount_to_spend>>)]
             ELSE IF available = amount_to_spend
                  THEN [raised |-> FALSE, heap |-> popped.heap]
                  ELSE SpendCredits_raise_on_empty(popped.heap,
                                                   amount_to_spend - available)

\* mutant: a bucket that holds more than the spend needs is popped and not
\* pushed back
RECURSIVE SpendCredits_drops_leftover(_, _)
SpendCredits_drops_leftover(heap, amount_to_spend) ==
    IF amount_to_spend > 0
    THEN IF heap = <<>>
         THEN [raised |-> TRUE, heap |-> heap]
         ELSE LET popped == heappop(heap)
                  available == popped.item[2]
              IN  IF available > amount_to_spend
                  THEN [raised |-> FALSE, heap |-> popped.heap]
                  ELSE SpendCredits_drops_leftover(popped.heap,
                                                   amount_to_spend - available)
    ELSE [raised |-> FALSE, heap |-> heap]

\* the while loop of the SUBTRACT branch: the heap it leaves, or raised
RECURSIVE SpendCredits(_, _)
SpendCredits(heap, amount_to_spend) ==
    IF amount_to_spend > 0
    THEN IF heap = <<>>
         THEN [raised |-> TRUE, heap |-> heap]
         ELSE LET popped == heappop(heap)
                  exp_ts == popped.item[1]
                  available == popped.item[2]
              IN  IF available > amount_to_spend
                  THEN [raised |-> FALSE,
                        heap |-> heappush(popped.heap,
                                          <<exp_ts, available - amount_to_spend>>)]
                  ELSE SpendCredits(popped.heap, amount_to_spend - available)
    ELSE [raised |-> FALSE, heap |-> heap]

\* mutant: expire_credits(event_ts) runs in the GRANT branch only, so that a
\* spend draws on buckets that expired at or before its timestamp
ReplayEvent_no_expiry_before_spend(heap, event) ==
    IF EventType(event) = "GRANT"
    THEN [raised |-> FALSE,
          heap |-> heappush(expire_credits(heap, EventTs(event)),
                            <<EventExpTs(event), EventAmount(event)>>)]
    ELSE SpendCredits(heap, EventAmount(event))

\* one iteration of the replay loop, on the heap the previous ones left
ReplayEvent(heap, event) ==
    LET active == expire_credits(heap, EventTs(event))
    IN  IF EventType(event) = "GRANT"
        THEN [raised |-> FALSE,
              heap |-> heappush(active, <<EventExpTs(event), EventAmount(event)>>)]
        ELSE SpendCredits(active, EventAmount(event))

\* mutant: the heap is kept from one query to the next
FreshCredits_retained(retained) == retained

\* the local heap a query starts from: active_credits = []
FreshCredits(retained) == <<>>

\* mutant: the exception is caught inside the loop, which goes on with an
\* empty heap, so that only a shortfall of the last event is reported
RECURSIVE Replay_recovering(_, _, _)
Replay_recovering(events, k, start) ==
    IF k = 0 THEN [raised |-> FALSE, heap |-> start]
    ELSE ReplayEvent(Replay_recovering(events, k - 1, start).heap, events[k])

\* the replay loop after its first k iterations, started on heap `start`
RECURSIVE Replay(_, _, _)
Replay(events, k, start) ==
    IF k = 0 THEN [raised |-> FALSE, heap |-> start]
    ELSE LET before == Replay(events, k - 1, start)
         IN  IF before.raised THEN before
             ELSE ReplayEvent(before.heap, events[k])

\* mutant: no expiry pass at the query timestamp after the loop
RunGetBalance_no_final_expiry(log, ts, start) ==
    LET events == eligible_events(log, ts)
        replayed == Replay(events, Len(events), start)
    IN  IF replayed.raised
        THEN [result |-> InsufficientCreditException, heap |-> replayed.heap]
        ELSE [result |-> Balance(SumAmounts(replayed.heap)), heap |-> replayed.heap]

\* the run of getBalance(ts) on `log`: what it returns or raises, and the
\* heap it ends with
RunGetBalance(log, ts, start) ==
    LET events == eligible_events(log, ts)
        replayed == Replay(events, Len(events), start)
        remaining == expire_credits(replayed.heap, ts)
    IN  IF replayed.raised
        THEN [result |-> InsufficientCreditException, heap |-> replayed.heap]
        ELSE [result |-> Balance(SumAmounts(remaining)), heap |-> remaining]

\* getBalance as a function of the log and the query timestamp
GetBalance(log, ts) == RunGetBalance(log, ts, FreshCredits(<<>>)).result

Raises(log, ts) == GetBalance(log, ts) = InsufficientCreditException

----------------------------------------------------------------------------
(* The operations.                                                         *)

\* no query has been observed since the log last changed
Unseen == {}

Init ==
    /\ event_log = <<>>
    /\ call = <<"__init__">>
    /\ result = None
    /\ active_credits = <<>>
    /\ seen = Unseen
    /\ gpu_event_log = <<>>
    /\ gpu_result = None

createGrant(grant_id, amount, ts, exp_ts) ==
    /\ event_log' = Append(event_log, GrantEvent(amount, ts, exp_ts))
    /\ call' = <<"createGrant", amount, ts, exp_ts>>
    /\ result' = None
    /\ UNCHANGED active_credits

\* mutant: the spend is checked when it is recorded, and refused when the
\* credit at its timestamp does not cover it
subtract_checked(amount, ts) ==
    /\ call' = <<"subtract", amount, ts>>
    /\ IF Raises(Append(event_log, SubtractEvent(amount, ts)), ts)
       THEN event_log' = event_log /\ result' = InsufficientCreditException
       ELSE event_log' = Append(event_log, SubtractEvent(amount, ts)) /\ result' = None
    /\ UNCHANGED active_credits

subtract(amount, ts) ==
    /\ event_log' = Append(event_log, SubtractEvent(amount, ts))
    /\ call' = <<"subtract", amount, ts>>
    /\ result' = None
    /\ UNCHANGED active_credits

\* mutant: self.event_log.sort(...) in place of the sort of the filtered copy
getBalance_sorting_in_place(ts) ==
    LET run == RunGetBalance(event_log, ts, FreshCredits(active_credits))
    IN  /\ result' = run.result
        /\ active_credits' = run.heap
        /\ call' = <<"getBalance", ts>>
        /\ event_log' = SortByTs(event_log)

getBalance(ts) ==
    LET run == RunGetBalance(event_log, ts, FreshCredits(active_credits))
    IN  /\ result' = run.result
        /\ active_credits' = run.heap
        /\ call' = <<"getBalance", ts>>
        /\ UNCHANGED event_log

Next ==
    \/ /\ Len(event_log) < MaxLog
       /\ \E grant_id \in GrantIds, amount \in GrantAmounts,
             ts \in Timestamps, exp_ts \in ExpiryTimestamps :
             createGrant(grant_id, amount, ts, exp_ts)
       /\ UNCHANGED <<seen, gpu_event_log, gpu_result>>
    \/ /\ Len(event_log) < MaxLog
       /\ \E amount \in SpendAmounts, ts \in Timestamps : subtract(amount, ts)
       /\ UNCHANGED <<seen, gpu_event_log, gpu_result>>
    \/ /\ \E ts \in Timestamps : getBalance(ts)
       /\ UNCHANGED <<seen, gpu_event_log, gpu_result>>

Spec == Init /\ [][Next]_vars

(* The same operations, with every query result since the last change of   *)
(* the log remembered in the history variable seen.                        *)
NextObserved ==
    \/ /\ Len(event_log) < MaxLogObserved
       /\ \E grant_id \in GrantIds, amount \in GrantAmounts,
             ts \in Timestamps, exp_ts \in ExpiryTimestamps :
             createGrant(grant_id, amount, ts, exp_ts)
       /\ seen' = Unseen
       /\ UNCHANGED <<gpu_event_log, gpu_result>>
    \/ /\ Len(event_log) < MaxLogObserved
       /\ \E amount \in SpendAmounts, ts \in Timestamps : subtract(amount, ts)
       /\ seen' = Unseen
       /\ UNCHANGED <<gpu_event_log, gpu_result>>
    \/ \E ts \in Timestamps :
          /\ getBalance(ts)
          /\ seen' = seen \cup {<<ts, result', \E a \in seen : a[1] = ts>>}
          /\ UNCHANGED <<gpu_event_log, gpu_result>>

SpecObserved == Init /\ [][NextObserved]_vars

(* The calls of the two test cases (test_case_1, test_case_2), made in any *)
(* order and any number of times.                                          *)
ScenarioGrants == {<<"a", 1, 10, 100>>, <<"a", 3, 10, 60>>, <<"b", 2, 20, 40>>}
ScenarioSpends == {<<1, 30>>, <<3, 50>>}
ScenarioQueries == {10, 20, 30, 40, 50}

NextScenario ==
    \/ /\ Len(event_log) < MaxLogScenario
       /\ \E g \in ScenarioGrants : createGrant(g[1], g[2], g[3], g[4])
       /\ UNCHANGED <<seen, gpu_event_log, gpu_result>>
    \/ /\ Len(event_log) < MaxLogScenario
       /\ \E s \in ScenarioSpends : subtract(s[1], s[2])
       /\ UNCHANGED <<seen, gpu_event_log, gpu_result>>
    \/ /\ \E ts \in ScenarioQueries : getBalance(ts)
       /\ UNCHANGED <<seen, gpu_event_log, gpu_result>>

SpecScenario == Init /\ [][NextScenario]_vars

----------------------------------------------------------------------------
(* class GpuCreditSystem: the same ledger with the events as dataclass     *)
(* instances.                                                              *)

\* GrantEvent(amount, ts, expire_ts) and SubtractEvent(amount, ts)
GpuGrantEvent(amount, ts, expire_ts) ==
    [class |-> "GrantEvent", amount |-> amount, ts |-> ts, expire_ts |-> expire_ts]

GpuSubtractEvent(amount, ts) ==
    [class |-> "SubtractEvent", amount |-> amount, ts |-> ts]

\* isinstance(event, GrantEvent)
IsGrantEvent(event) == event.class = "GrantEvent"

\* events = [e for e in self.event_log if e.ts <= ts]
GpuEvents(log, ts) == SelectSeq(log, LAMBDA e : e.ts <= ts)

\* events.sort(key=lambda e: e.ts), stable: the first of the events with the
\* least ts comes first
GpuFirst(events) ==
    CHOOSE i \in 1 .. Len(events) :
        /\ \A j \in 1 .. Len(events) : events[i].ts <= events[j].ts
        /\ \A j \in 1 .. i - 1 : events[j].ts > events[i].ts

RECURSIVE GpuSorted(_)
GpuSorted(events) ==
    IF events = <<>> THEN <<>>
    ELSE LET i == GpuFirst(events)
         IN  <<events[i]>>
                 \o GpuSorted(SubSeq(events, 1, i - 1)
                                  \o SubSeq(events, i + 1, Len(events)))

\* mutant: the comparison of expire_credits is < instead of <=
RECURSIVE GpuExpireCredits_strict(_, _)
GpuExpireCredits_strict(credits, up_to_ts) ==
    IF credits = <<>> \/ credits[1][1] >= up_to_ts THEN credits
    ELSE GpuExpireCredits_strict(heappop(credits).heap, up_to_ts)

\* expire_credits(up_to_ts) of GpuCreditSystem.getBalance
RECURSIVE GpuExpireCredits(_, _)
GpuExpireCredits(credits, up_to_ts) ==
    IF credits = <<>> \/ credits[1][1] > up_to_ts THEN credits
    ELSE GpuExpireCredits(heappop(credits).heap, up_to_ts)

\* the while need > 0 loop: whether it raised, and the heap it leaves
RECURSIVE GpuSpend(_, _)
GpuSpend(credits, need) ==
    IF need <= 0 THEN [raised |-> FALSE, credits |-> credits]
    ELSE IF credits = <<>> THEN [raised |-> TRUE, credits |-> credits]
    ELSE LET expire_ts == heappop(credits).item[1]
             available == heappop(credits).item[2]
             rest == heappop(credits).heap
         IN  IF available > need
             THEN GpuSpend(heappush(rest, <<expire_ts, available - need>>), 0)
             ELSE GpuSpend(rest, need - available)

\* for event in events: whether the loop raised, and the heap it leaves
\* from `credits` on
RECURSIVE GpuReplay(_, _)
GpuReplay(events, credits) ==
    IF events = <<>> THEN [raised |-> FALSE, credits |-> credits]
    ELSE LET event == Head(events)
             active == GpuExpireCredits(credits, event.ts)
             after == IF IsGrantEvent(event)
                      THEN [raised |-> FALSE,
                            credits |-> heappush(active,
                                                 <<event.expire_ts, event.amount>>)]
                      ELSE GpuSpend(active, event.amount)
         IN  IF after.raised THEN after
             ELSE GpuReplay(Tail(events), after.credits)

\* GpuCreditSystem.getBalance as a function of the log and the timestamp
GpuGetBalance(log, ts) ==
    LET replayed == GpuReplay(GpuSorted(GpuEvents(log, ts)), <<>>)
    IN  IF replayed.raised THEN InsufficientCreditException
        ELSE Balance(SumAmounts(GpuExpireCredits(replayed.credits, ts)))

GpuCreateGrant(id, amount, ts, expire_ts) ==
    /\ gpu_event_log' = Append(gpu_event_log, GpuGrantEvent(amount, ts, expire_ts))
    /\ gpu_result' = None

GpuSubtract(amount, ts) ==
    /\ gpu_event_log' = Append(gpu_event_log, GpuSubtractEvent(amount, ts))
    /\ gpu_result' = None

GpuGetBalanceCall(ts) ==
    /\ gpu_result' = GpuGetBalance(gpu_event_log, ts)
    /\ UNCHANGED gpu_event_log

(* A CreditSystem and a GpuCreditSystem given the same calls.              *)
NextBoth ==
    \/ /\ Len(event_log) < MaxLog
       /\ \E grant_id \in GrantIds, amount \in GrantAmounts,
             ts \in Timestamps, exp_ts \in ExpiryTimestamps :
             /\ createGrant(grant_id, amount, ts, exp_ts)
             /\ GpuCreateGrant(grant_id, amount, ts, exp_ts)
       /\ UNCHANGED seen
    \/ /\ Len(event_log) < MaxLog
       /\ \E amount \in SpendAmounts, ts \in Timestamps :
             subtract(amount, ts) /\ GpuSubtract(amount, ts)
       /\ UNCHANGED seen
    \/ /\ \E ts \in Timestamps : getBalance(ts) /\ GpuGetBalanceCall(ts)
       /\ UNCHANGED seen

SpecBoth == Init /\ [][NextBoth]_vars

----------------------------------------------------------------------------
(* Claims.                                                                 *)

\* the log of test_case_2 after its four recording calls
ScenarioBLog ==
    <<GrantEvent(3, 10, 60), GrantEvent(2, 20, 40),
      SubtractEvent(1, 30), SubtractEvent(3, 50)>>

ScenarioBExpected(ts) ==
    CASE ts = 10 -> 3 [] ts = 20 -> 5 [] ts = 30 -> 4 [] ts = 40 -> 3 [] ts = 50 -> 0

\* C1 (Scenario B): on a fresh ledger, after createGrant(3, 10, 60) the query
\* getBalance(10) returns 3; after then recording createGrant(2, 20, 40),
\* subtract(1, 30), subtract(3, 50), the queries at 10, 20, 30, 40, 50 return
\* 3, 5, 4, 3, 0, none of them raising.
C1_ScenarioB ==
    call[1] = "getBalance" =>
        /\ (event_log = <<GrantEvent(3, 10, 60)>> /\ call[2] = 10)
               => result = Balance(3)
        /\ event_log = ScenarioBLog
               => result = Balance(ScenarioBExpected(call[2]))

C1_Witness ==
    /\ event_log = ScenarioBLog
    /\ call = <<"getBalance", 40>>
    /\ result = Balance(3)

\* the log of test_case_1 before and after the retroactive grant
ScenarioALogBefore == <<SubtractEvent(1, 30)>>
ScenarioALogAfter == <<SubtractEvent(1, 30), GrantEvent(1, 10, 100)>>

\* C2 (Scenario A): on a fresh ledger, after subtract(1, 30) with no grants,
\* getBalance(30) and getBalance(40) raise InsufficientCreditException; after
\* the later-recorded createGrant(1, 10, 100), getBalance(10) = 1,
\* getBalance(20) = 1 and getBalance(30) = 0.
C2_ScenarioA ==
    call[1] = "getBalance" =>
        /\ (event_log = ScenarioALogBefore /\ call[2] \in {30, 40})
               => result = InsufficientCreditException
        /\ (event_log = ScenarioALogAfter /\ call[2] \in {10, 20})
               => result = Balance(1)
        /\ (event_log = ScenarioALogAfter /\ call[2] = 30)
               => result = Balance(0)

C2_Witness ==
    /\ event_log = ScenarioALogAfter
    /\ call = <<"getBalance", 30>>
    /\ result = Balance(0)

----------------------------------------------------------------------------
(* Helpers of the claims below.                                            *)

Last(seq) == seq[Len(seq)]
Front(seq) == SubSeq(seq, 1, Len(seq) - 1)
RemoveAt(seq, i) == SubSeq(seq, 1, i - 1) \o SubSeq(seq, i + 1, Len(seq))

\* the events with timestamp <= q, by timestamp, ties in recording order
RECURSIVE Chronological(_, _)
Chronological(log, q) ==
    IF q < 0 THEN <<>>
    ELSE Chronological(log, q - 1) \o SelectSeq(log, LAMBDA e : EventTs(e) = q)

\* the credit of the buckets of `heap` that are not expired at `ts`
UsableCredit(heap, ts) == SumAmounts(SelectSeq(heap, LAMBDA b : b[1] > ts))

\* the replay of `events` reaches its k-th event, a spend, and that spend
\* asks for more than the active buckets hold
ShortfallAt(events, k) ==
    LET before == Replay(events, k - 1, <<>>)
    IN  /\ EventType(events[k]) = "SUBTRACT"
        /\ ~before.raised
        /\ EventAmount(events[k]) > UsableCredit(before.heap, EventTs(events[k]))

\* C3: createGrant and subtract always succeed: they return None and append
\* their event, also when the spend cannot be covered at its timestamp;
\* InsufficientCreditException comes from getBalance only.
C3_RecordingNeverRaises ==
    /\ call[1] = "createGrant" =>
          /\ result = None
          /\ event_log # <<>>
          /\ Last(event_log) = GrantEvent(call[2], call[3], call[4])
    /\ call[1] = "subtract" =>
          /\ result = None
          /\ event_log # <<>>
          /\ Last(event_log) = SubtractEvent(call[2], call[3])
    /\ result = InsufficientCreditException => call[1] = "getBalance"

\* a spend was recorded that no credit covers at its timestamp
C3_Witness ==
    /\ call[1] = "subtract"
    /\ call[2] > 0
    /\ result = None
    /\ Raises(event_log, call[3])
    /\ ~Raises(Front(event_log), call[3])

\* C4: getBalance(q) raises if and only if the replay of the events with
\* timestamp <= q (by timestamp, ties in recording order) reaches a spend
\* whose amount exceeds the credit of the buckets not expired at the spend's
\* timestamp; otherwise it returns a balance, never both.
C4_RaisesIffShortfall ==
    call[1] = "getBalance" =>
        LET events == Chronological(event_log, call[2])
        IN  /\ result = InsufficientCreditException
                <=> \E k \in 1 .. Len(events) : ShortfallAt(events, k)
            /\ \/ result = InsufficientCreditException
               \/ /\ Len(result) = 2
                  /\ result[1] = "Balance"
                  /\ result[2] \in Nat

\* a query raised on a spend that found some credit, but not enough, after
\* earlier events were replayed
C4_Witness ==
    /\ call[1] = "getBalance"
    /\ result = InsufficientCreditException
    /\ LET events == Chronological(event_log, call[2])
       IN  \E k \in 2 .. Len(events) :
              /\ ShortfallAt(events, k)
              /\ UsableCredit(Replay(events, k - 1, <<>>).heap, EventTs(events[k])) > 0

\* C5: for a fixed log, once getBalance(t) raises, getBalance(t2) raises for
\* every t2 >= t; and a spend at timestamp s never makes getBalance(t) raise
\* for t < s: with or without that spend in the log, getBalance(t) raises or
\* not alike.
C5_FailurePropagatesForward ==
    /\ \A t \in Timestamps :
          Raises(event_log, t) =>
              \A t2 \in Timestamps : t2 >= t => Raises(event_log, t2)
    /\ (call[1] = "getBalance" /\ result = InsufficientCreditException) =>
          \A t2 \in Timestamps : t2 >= call[2] => Raises(event_log, t2)
    /\ \A i \in 1 .. Len(event_log) :
          EventType(event_log[i]) = "SUBTRACT" =>
              \A t \in Timestamps :
                  t < EventTs(event_log[i]) =>
                      (Raises(event_log, t) <=> Raises(RemoveAt(event_log, i), t))

\* a query raised before the last timestamp, a grant that would have covered
\* the spend arrives only later, and the log holds a later spend
C5_Witness ==
    /\ call[1] = "getBalance"
    /\ call[2] >= 1
    /\ call[2] < MaxTs
    /\ result = InsufficientCreditException
    /\ ~Raises(event_log, call[2] - 1)
    /\ \E i \in 1 .. Len(event_log) :
          /\ EventType(event_log[i]) = "GRANT"
          /\ EventTs(event_log[i]) > call[2]
    /\ \E i \in 1 .. Len(event_log) :
          /\ EventType(event_log[i]) = "SUBTRACT"
          /\ EventTs(event_log[i]) > call[2]

\* C6 (determinism): with an unchanged log, every query of the same timestamp
\* gives the same result, however often it is repeated and whatever queries
\* are made in between; the result is the one a query computes from the log
\* and the timestamp alone.
C6_Deterministic ==
    /\ \A a \in seen : \A b \in seen : a[1] = b[1] => a[2] = b[2]
    /\ \A a \in seen : a[2] = GetBalance(event_log, a[1])

\* a timestamp was queried again, with a positive balance, after a query
\* of it and a query of another timestamp that raised, and the last query
\* left buckets in its heap
C6_Witness ==
    /\ call[1] = "getBalance"
    /\ active_credits # <<>>
    /\ \E a \in seen : \E b \in seen :
          /\ a[1] # b[1]
          /\ a[2] = InsufficientCreditException
          /\ b[2] # InsufficientCreditException
          /\ b[2][2] > 0
          /\ b[3]
          /\ call[2] = b[1]

\* C7: getBalance(q) depends only on the events with timestamp <= q: with
\* or without any event of a later timestamp in the log, whatever its place
\* in the recording order, getBalance(q) gives the same result.
C7_LaterEventsIgnored ==
    /\ \A i \in 1 .. Len(event_log) :
          \A q \in Timestamps :
              q < EventTs(event_log[i]) =>
                  GetBalance(event_log, q) = GetBalance(RemoveAt(event_log, i), q)
    /\ call[1] = "getBalance" =>
          \A i \in 1 .. Len(event_log) :
              call[2] < EventTs(event_log[i]) =>
                  result = GetBalance(RemoveAt(event_log, i), call[2])

\* a query returned a positive balance although the log holds, before other
\* events in recording order, a later spend that no credit covers
C7_Witness ==
    /\ call[1] = "getBalance"
    /\ result # InsufficientCreditException
    /\ result[2] > 0
    /\ Len(event_log) >= 2
    /\ EventType(event_log[1]) = "SUBTRACT"
    /\ EventTs(event_log[1]) > call[2]
    /\ Raises(event_log, EventTs(event_log[1]))

\* the amounts of the grants of `log` with ts <= q < exp_ts
RECURSIVE WindowCredit(_, _)
WindowCredit(log, q) ==
    IF log = <<>> THEN 0
    ELSE (IF /\ EventType(Head(log)) = "GRANT"
             /\ EventTs(Head(log)) <= q
             /\ q < EventExpTs(Head(log))
          THEN EventAmount(Head(log)) ELSE 0)
         + WindowCredit(Tail(log), q)

NoSpends(log) == \A i \in 1 .. Len(log) : EventType(log[i]) = "GRANT"

\* C8 (expiry closedness): for a log without spends, getBalance(q) is the sum
\* of the amounts of exactly the grants with ts <= q < exp_ts: a bucket
\* expiring at q is not counted at q, and is counted at q - 1.
C8_ExpiryClosed ==
    (call[1] = "getBalance" /\ NoSpends(event_log)) =>
        result = Balance(WindowCredit(event_log, call[2]))

\* a query at the very expiry timestamp of a grant recorded earlier, which
\* another query would count one instant before, beside a grant it counts
C8_Witness ==
    /\ call[1] = "getBalance"
    /\ NoSpends(event_log)
    /\ call[2] >= 1
    /\ result # InsufficientCreditException
    /\ result[2] > 0
    /\ \E i \in 1 .. Len(event_log) :
          /\ EventExpTs(event_log[i]) = call[2]
          /\ EventTs(event_log[i]) < call[2]
    /\ GetBalance(event_log, call[2] - 1)[2] > result[2]

\* how many buckets of `heap` are the tuple b
Count(heap, b) == Cardinality({i \in DOMAIN heap : heap[i] = b})

BucketsOf(heap) == {heap[i] : i \in DOMAIN heap}

\* what the k-th event of the replay, a satisfied spend, did to the buckets:
\* usable are the buckets not expired at the spend, left the buckets after it
SpendIsEarliestFirst(events, k) ==
    LET before == Replay(events, k - 1, <<>>)
        usable == SelectSeq(before.heap, LAMBDA b : b[1] > EventTs(events[k]))
        left == Replay(events, k, <<>>).heap
        all == BucketsOf(usable) \cup BucketsOf(left)
        taken == {b \in all : Count(usable, b) > Count(left, b)}
        leftover == {b \in all : Count(left, b) > Count(usable, b)}
    IN  \* at most one bucket is partially consumed, and it is what is left
        \* of a bucket that was usable
        /\ Cardinality(leftover) <= 1
        /\ \A b \in leftover :
              /\ Count(left, b) = Count(usable, b) + 1
              /\ \E d \in taken : d[1] = b[1] /\ d[2] > b[2]
        \* no bucket survives that expires strictly before a bucket the
        \* spend took credit from
        /\ \A d \in taken \cup leftover : \A b \in BucketsOf(left) : ~(b[1] < d[1])
        \* the spend took its amount, no more and no less
        /\ SumAmounts(usable) - SumAmounts(left) = EventAmount(events[k])

\* C9 (earliest-expiry-first): in every replay, a satisfied spend reduces a
\* bucket only when every usable bucket of a strictly earlier expiry is
\* fully drained and removed; after it at most one bucket is partially
\* consumed and no bucket expiring strictly before it is left.
C9_EarliestExpiryFirst ==
    call[1] = "getBalance" =>
        LET events == eligible_events(event_log, call[2])
        IN  \A k \in 1 .. Len(events) :
               (EventType(events[k]) = "SUBTRACT" /\ ~Replay(events, k, <<>>).raised)
                   => SpendIsEarliestFirst(events, k)

\* a query replayed a spend that found two buckets of different expiry,
\* drained the earlier one and left the later one partially consumed
C9_Witness ==
    /\ call[1] = "getBalance"
    /\ result # InsufficientCreditException
    /\ LET events == eligible_events(event_log, call[2])
       IN  \E k \in 1 .. Len(events) :
              /\ EventType(events[k]) = "SUBTRACT"
              /\ LET usable == expire_credits(Replay(events, k - 1, <<>>).heap,
                                              EventTs(events[k]))
                     left == Replay(events, k, <<>>).heap
                 IN  /\ Len(usable) = 2
                     /\ usable[1][1] < usable[2][1]
                     /\ Len(left) = 1
                     /\ left[1][1] = usable[2][1]
                     /\ left[1][2] < usable[2][2]

\* C10 (monotonic retroactivity): recording one more grant, whatever its
\* amount, ts and exp_ts, never makes a query raise that did not raise on
\* the log before it, at any query timestamp; and the grant leaves the
\* replay order of the events recorded before it as it was.
C10_GrantNeverBreaksQuery ==
    call[1] = "createGrant" =>
        \A q \in Timestamps :
            LET old == eligible_events(Front(event_log), q)
                new == eligible_events(event_log, q)
            IN  /\ ~Raises(Front(event_log), q) => ~Raises(event_log, q)
                /\ IF call[3] <= q
                   THEN \E k \in 1 .. Len(new) :
                           /\ new[k] = Last(event_log)
                           /\ RemoveAt(new, k) = old
                   ELSE new = old

\* a grant was recorded at the timestamp of a positive spend recorded before
\* it; the query at that timestamp did not raise before, and after it
\* returns another balance
C10_Witness ==
    /\ call[1] = "createGrant"
    /\ \E i \in 1 .. Len(event_log) - 1 :
          /\ EventType(event_log[i]) = "SUBTRACT"
          /\ EventTs(event_log[i]) = call[3]
          /\ EventAmount(event_log[i]) > 0
    /\ ~Raises(Front(event_log), call[3])
    /\ ~Raises(event_log, call[3])
    /\ GetBalance(event_log, call[3]) # GetBalance(Front(event_log), call[3])

\* the replay of `events` raises at its k-th event, the first spend that
\* falls short
FirstShortfall(events, k) ==
    /\ Replay(events, k, <<>>).raised
    /\ ~Replay(events, k - 1, <<>>).raised

\* the grant just recorded covers the spend s: it is available from
\* `from_ts` on, not expired at the spend, and not smaller than it
Covers(s, from_ts) ==
    /\ call[3] <= from_ts
    /\ call[4] > EventTs(s)
    /\ call[2] >= EventAmount(s)

\* C11 as stated: once a grant with ts <= s.ts (equality included),
\* exp_ts > s.ts and amount >= s.amount is recorded after the first spend s
\* that falls short, s is satisfied and getBalance(s.ts) no longer raises.
C11_AsStated ==
    call[1] = "createGrant" =>
        \A q \in Timestamps :
            LET old == eligible_events(Front(event_log), q)
            IN  \A k \in 1 .. Len(old) :
                   (FirstShortfall(old, k) /\ Covers(old[k], EventTs(old[k])))
                       => ~Raises(event_log, EventTs(old[k]))

\* C11 (amended): once a grant with ts < s.ts (strictly), exp_ts > s.ts and
\* amount >= s.amount is recorded after the first spend s that falls short,
\* s is satisfied in the replay: the replay of every query that reaches s
\* gets past it, and raises only if a spend replayed after s falls short.
C11_EarlierCoveringGrantRepairs ==
    call[1] = "createGrant" =>
        \A q \in Timestamps :
            LET old == eligible_events(Front(event_log), q)
                new == eligible_events(event_log, q)
            IN  \A k \in 1 .. Len(old) :
                   (FirstShortfall(old, k) /\ Covers(old[k], EventTs(old[k]) - 1))
                       => /\ new[k + 1] = old[k]
                          /\ ~Replay(new, k + 1, <<>>).raised

\* a covering grant of an earlier timestamp was recorded after a spend that
\* fell short behind an earlier event, and the query at the spend's
\* timestamp, which raised, now returns a balance
C11_Witness ==
    /\ call[1] = "createGrant"
    /\ Len(event_log) = 3
    /\ \E q \in Timestamps :
          LET old == eligible_events(Front(event_log), q)
          IN  \E k \in 2 .. Len(old) :
                 /\ FirstShortfall(old, k)
                 /\ Covers(old[k], EventTs(old[k]) - 1)
                 /\ q = EventTs(old[k])
                 /\ ~Raises(event_log, q)

ZeroSpend(e) == EventType(e) = "SUBTRACT" /\ EventAmount(e) = 0

\* C12: a spend of amount 0 never raises and consumes nothing: with or
\* without it in the log, at any timestamp and any place in the recording
\* order, every query gives the same result, also when no credit is active
\* at the spend's timestamp.
C12_ZeroSpendIsNeutral ==
    /\ \A i \in 1 .. Len(event_log) :
          ZeroSpend(event_log[i]) =>
              \A q \in Timestamps :
                  GetBalance(event_log, q) = GetBalance(RemoveAt(event_log, i), q)
    /\ call[1] = "getBalance" =>
          /\ \A i \in 1 .. Len(event_log) :
                ZeroSpend(event_log[i]) =>
                    result = GetBalance(RemoveAt(event_log, i), call[2])
          /\ LET events == eligible_events(event_log, call[2])
             IN  \A k \in 1 .. Len(events) :
                    ZeroSpend(events[k]) => ~FirstShortfall(events, k)

\* a query returned a positive balance after replaying a spend of 0 at a
\* timestamp where no credit is active
C12_Witness ==
    /\ call[1] = "getBalance"
    /\ result # InsufficientCreditException
    /\ result[2] > 0
    /\ \E i \in 1 .. Len(event_log) :
          /\ ZeroSpend(event_log[i])
          /\ EventTs(event_log[i]) < call[2]
          /\ GetBalance(event_log, EventTs(event_log[i])) = Balance(0)

IllFormedGrant(e) == EventType(e) = "GRANT" /\ EventExpTs(e) < EventTs(e)

\* the log is an ill-formed grant followed by a spend at the grant's
\* timestamp of at most its amount, and the call queried that timestamp
IllFormedGrantThenSpend ==
    /\ call[1] = "getBalance"
    /\ Len(event_log) = 2
    /\ IllFormedGrant(event_log[1])
    /\ EventType(event_log[2]) = "SUBTRACT"
    /\ EventTs(event_log[2]) = EventTs(event_log[1])
    /\ EventAmount(event_log[2]) <= EventAmount(event_log[1])
    /\ call[2] = EventTs(event_log[1])

\* a grant with exp_ts < ts changes no query at or after its exp_ts
IllFormedGrantContributesZero ==
    \A i \in 1 .. Len(event_log) :
        IllFormedGrant(event_log[i]) =>
            \A q \in Timestamps :
                q >= EventExpTs(event_log[i])
                    => GetBalance(event_log, q)
                           = GetBalance(RemoveAt(event_log, i), q)

\* C13 as stated: a grant with exp_ts < ts contributes zero to every query
\* at or after its exp_ts, and a spend of at most its amount recorded after
\* it at the grant's ts consumes it: with no other credit, getBalance(ts)
\* does not raise.
C13_AsStated ==
    /\ IllFormedGrantContributesZero
    /\ IllFormedGrantThenSpend => result # InsufficientCreditException

\* C13 (amended): a grant with exp_ts < ts contributes zero to every query
\* and no spend consumes it: with or without it in the log every query gives
\* the same result, and with that grant as the only credit a positive spend
\* of at most its amount recorded after it at the grant's ts makes
\* getBalance(ts) raise.
C13_IllFormedGrantIsNeverUsable ==
    /\ \A i \in 1 .. Len(event_log) :
          IllFormedGrant(event_log[i]) =>
              \A q \in Timestamps :
                  GetBalance(event_log, q) = GetBalance(RemoveAt(event_log, i), q)
    /\ (IllFormedGrantThenSpend /\ EventAmount(event_log[2]) > 0)
          => result = InsufficientCreditException

\* the query at the timestamp of an ill-formed grant and of the positive
\* spend recorded after it raised
C13_Witness ==
    /\ IllFormedGrantThenSpend
    /\ EventAmount(event_log[2]) > 0
    /\ result = InsufficientCreditException

WellFormedGrant(e) == EventType(e) = "GRANT" /\ EventExpTs(e) > EventTs(e)

\* the k-th event of the log is a grant whose credit is usable at `ts`
UsableGrantAt(log, k, ts) ==
    /\ EventType(log[k]) = "GRANT"
    /\ EventTs(log[k]) <= ts
    /\ EventExpTs(log[k]) > ts

\* C14: events sharing a timestamp are replayed in recording order: the
\* replay order is by timestamp and, within a timestamp, as recorded; a
\* spend recorded after a well-formed grant of the same timestamp consumes
\* it (the only spend up to then, of at most the grant's amount: the query
\* at that timestamp returns the window credit less the spend), and a
\* positive spend recorded before that grant, with no other credit usable
\* at its timestamp, makes every query from that timestamp on raise.
C14_TiesInRecordingOrder ==
    /\ \A q \in Timestamps : eligible_events(event_log, q) = Chronological(event_log, q)
    /\ \A i, j \in 1 .. Len(event_log) :
          LET g == event_log[i]
              s == event_log[j]
          IN  (/\ WellFormedGrant(g)
               /\ EventType(s) = "SUBTRACT"
               /\ EventTs(s) = EventTs(g))
              => /\ (/\ i < j
                     /\ EventAmount(s) <= EventAmount(g)
                     /\ \A m \in 1 .. Len(event_log) :
                           (EventType(event_log[m]) = "SUBTRACT"
                              /\ EventTs(event_log[m]) <= EventTs(s)) => m = j)
                    => GetBalance(event_log, EventTs(s))
                          = Balance(WindowCredit(event_log, EventTs(s))
                                       - EventAmount(s))
                 /\ (/\ j < i
                     /\ EventAmount(s) > 0
                     /\ \A m \in 1 .. Len(event_log) :
                           UsableGrantAt(event_log, m, EventTs(s))
                               => (m > j /\ EventTs(event_log[m]) = EventTs(s)))
                    => \A q \in Timestamps :
                          q >= EventTs(s) => Raises(event_log, q)

\* a query raised on a spend recorded before a sufficient well-formed grant
\* of the same timestamp; with the two recorded the other way round the same
\* query returns a balance
C14_Witness ==
    /\ call[1] = "getBalance"
    /\ result = InsufficientCreditException
    /\ Len(event_log) = 2
    /\ EventType(event_log[1]) = "SUBTRACT"
    /\ WellFormedGrant(event_log[2])
    /\ EventTs(event_log[1]) = EventTs(event_log[2])
    /\ EventAmount(event_log[1]) \in 1 .. EventAmount(event_log[2])
    /\ call[2] = EventTs(event_log[1])
    /\ GetBalance(<<event_log[2], event_log[1]>>, call[2])
          = Balance(EventAmount(event_log[2]) - EventAmount(event_log[1]))

\* the orders in which the events of a log of length n can be recorded
RecordingOrders(n) ==
    {p \in [1 .. n -> 1 .. n] : \A a, b \in 1 .. n : a # b => p[a] # p[b]}

Reordered(log, p) == [k \in 1 .. Len(log) |-> log[p[k]]]

NoGrantSpendTie(log) ==
    \A i, j \in 1 .. Len(log) :
        (EventType(log[i]) = "GRANT" /\ EventType(log[j]) = "SUBTRACT")
            => EventTs(log[i]) # EventTs(log[j])

\* C15: when no grant shares its timestamp with a spend, the recording order
\* is irrelevant: the same events recorded in any other order give, for every
\* query timestamp, the same balance or the same InsufficientCreditException.
C15_RecordingOrderIrrelevant ==
    NoGrantSpendTie(event_log) =>
        \A p \in RecordingOrders(Len(event_log)) :
            /\ \A q \in Timestamps :
                  GetBalance(Reordered(event_log, p), q) = GetBalance(event_log, q)
            /\ call[1] = "getBalance"
                  => result = GetBalance(Reordered(event_log, p), call[2])

\* a query returned a balance from a log of three events, recorded out of
\* timestamp order, in which a positive spend consumed credit and two events
\* of one kind share a timestamp
C15_Witness ==
    /\ call[1] = "getBalance"
    /\ result # InsufficientCreditException
    /\ Len(event_log) = 3
    /\ NoGrantSpendTie(event_log)
    /\ \E i, j \in 1 .. 3 : i < j /\ EventTs(event_log[i]) > EventTs(event_log[j])
    /\ \E i, j \in 1 .. 3 : i < j /\ EventTs(event_log[i]) = EventTs(event_log[j])
    /\ \E i \in 1 .. 3 :
          /\ EventType(event_log[i]) = "SUBTRACT"
          /\ EventAmount(event_log[i]) > 0
          /\ EventTs(event_log[i]) <= call[2]

AllEventsAfter(log, q) == \A i \in 1 .. Len(log) : EventTs(log[i]) > q

\* C16: a query at a timestamp strictly before the timestamp of every
\* recorded event, the empty log included, returns 0 and does not raise,
\* whatever grants and spends the log holds at later timestamps.
C16_QueryBeforeEveryEvent ==
    /\ \A q \in -1 .. MaxTs :
          AllEventsAfter(event_log, q) => GetBalance(event_log, q) = Balance(0)
    /\ (call[1] = "getBalance" /\ AllEventsAfter(event_log, call[2]))
          => result = Balance(0)

\* a query returned 0 before every event of a log that holds a grant with
\* credit at a later timestamp and a spend on which a later query raises
C16_Witness ==
    /\ call[1] = "getBalance"
    /\ result = Balance(0)
    /\ AllEventsAfter(event_log, call[2])
    /\ Len(event_log) = 3
    /\ \E q \in Timestamps : q > call[2] /\ Raises(event_log, q)
    /\ \E q \in Timestamps :
          /\ q > call[2]
          /\ ~Raises(event_log, q)
          /\ GetBalance(event_log, q)[2] > 0

\* what the k-th event of the replay, a spend at timestamp t that the replay
\* reaches, can draw on: `before` are the buckets the previous iterations
\* left (expired ones among them, until the next expiry check), `usable`
\* those of them with exp_ts > t
SpendStaysInWindow(events, k) ==
    LET t == EventTs(events[k])
        before == Replay(events, k - 1, <<>>).heap
        after == Replay(events, k, <<>>)
        usable == SelectSeq(before, LAMBDA b : b[1] > t)
    IN  \* a usable bucket is what is left of a grant with ts <= t < exp_ts
        /\ \A b \in BucketsOf(usable) :
              \E j \in 1 .. k - 1 :
                  /\ UsableGrantAt(events, j, t)
                  /\ EventExpTs(events[j]) = b[1]
                  /\ EventAmount(events[j]) >= b[2]
        /\ SumAmounts(usable) <= WindowCredit(SubSeq(events, 1, k - 1), t)
        \* the spend is satisfied from the usable buckets alone
        /\ after.raised <=> EventAmount(events[k]) > SumAmounts(usable)
        /\ ~after.raised =>
              /\ SumAmounts(usable) - SumAmounts(after.heap) = EventAmount(events[k])
              /\ \A b \in BucketsOf(after.heap) :
                    b[1] > t /\ \E u \in BucketsOf(usable) : u[1] = b[1] /\ u[2] >= b[2]

\* C17 (usability window): in every replay a spend at timestamp t draws only
\* on buckets of grants with ts <= t and exp_ts > t: it is satisfied exactly
\* when those hold its amount, what it takes comes out of them, and a
\* positive spend at a timestamp where no grant of the log is in its window
\* makes every query from that timestamp on raise.
C17_UsabilityWindow ==
    /\ call[1] = "getBalance" =>
          LET events == eligible_events(event_log, call[2])
          IN  \A k \in 1 .. Len(events) :
                 (EventType(events[k]) = "SUBTRACT" /\ ~Replay(events, k - 1, <<>>).raised)
                     => SpendStaysInWindow(events, k)
    /\ \A i \in 1 .. Len(event_log) :
          (/\ EventType(event_log[i]) = "SUBTRACT"
           /\ EventAmount(event_log[i]) > 0
           /\ WindowCredit(event_log, EventTs(event_log[i])) = 0)
              => \A q \in Timestamps :
                    q >= EventTs(event_log[i]) => Raises(event_log, q)

\* a query replayed a positive spend that found an expired bucket not yet
\* removed next to a usable one, and was satisfied
C17_Witness ==
    /\ call[1] = "getBalance"
    /\ result # InsufficientCreditException
    /\ LET events == eligible_events(event_log, call[2])
       IN  \E k \in 1 .. Len(events) :
              /\ EventType(events[k]) = "SUBTRACT"
              /\ EventAmount(events[k]) > 0
              /\ \E b \in BucketsOf(Replay(events, k - 1, <<>>).heap) :
                    b[1] <= EventTs(events[k])

\* the event a recording call appends
RecordedEvent(c) ==
    IF c[1] = "createGrant" THEN GrantEvent(c[2], c[3], c[4])
    ELSE SubtractEvent(c[2], c[3])

\* C18: the log is append-only and queries do not touch it: every step that
\* changes the log is a createGrant or subtract that adds its one event at
\* the end and keeps the entries before it, in their order; a getBalance
\* that reports a new call or a new result, balance or exception, leaves
\* the log as it was.
C18_LogAppendOnly ==
    [][/\ event_log' # event_log
          => /\ call'[1] \in {"createGrant", "subtract"}
             /\ event_log' = Append(event_log, RecordedEvent(call'))
       /\ call'[1] \in {"createGrant", "subtract"}
          => /\ Len(event_log') = Len(event_log) + 1
             /\ SubSeq(event_log', 1, Len(event_log)) = event_log
       /\ call'[1] = "getBalance" => event_log' = event_log]_vars

\* a query raised on a log of three events that is not in timestamp order
C18_Witness ==
    /\ call[1] = "getBalance"
    /\ result = InsufficientCreditException
    /\ Len(event_log) = 3
    /\ \E i, j \in 1 .. 3 : i < j /\ EventTs(event_log[i]) > EventTs(event_log[j])
    /\ event_log # SortByTs(event_log)

\* the total amount of the spends with ts <= q
RECURSIVE SpendTotal(_, _)
SpendTotal(log, q) ==
    IF log = <<>> THEN 0
    ELSE (IF EventType(Head(log)) = "SUBTRACT" /\ EventTs(Head(log)) <= q
          THEN EventAmount(Head(log)) ELSE 0)
         + SpendTotal(Tail(log), q)

BalanceWithinBounds(log, q, balance) ==
    /\ balance >= 0
    /\ balance <= WindowCredit(log, q)
    /\ balance >= WindowCredit(log, q) - SpendTotal(log, q)

\* C19 (balance bounds): a balance that getBalance(q) returns is at least 0,
\* at most the sum of the amounts of the grants with ts <= q < exp_ts, and at
\* least that sum less the total amount of the spends with ts <= q.
C19_BalanceBounds ==
    /\ (call[1] = "getBalance" /\ result # InsufficientCreditException)
          => result[1] = "Balance" /\ BalanceWithinBounds(event_log, call[2], result[2])
    /\ \A q \in Timestamps :
          ~Raises(event_log, q)
              => BalanceWithinBounds(event_log, q, GetBalance(event_log, q)[2])

\* a query returned a balance strictly between the bounds: a spend took
\* credit both from a grant in the window of the query and from one that
\* expired before it
C19_Witness ==
    /\ call[1] = "getBalance"
    /\ result # InsufficientCreditException
    /\ result[2] > 0
    /\ result[2] < WindowCredit(event_log, call[2])
    /\ result[2] > WindowCredit(event_log, call[2]) - SpendTotal(event_log, call[2])

\* C20: a CreditSystem and a GpuCreditSystem given the same createGrant and
\* subtract calls agree on every query: getBalance(ts) returns the same
\* balance or raises InsufficientCreditException on both, for every ts, and
\* so did the query just made.
C20_ImplementationsAgree ==
    /\ \A ts \in Timestamps :
          GpuGetBalance(gpu_event_log, ts) = GetBalance(event_log, ts)
    /\ call[1] = "getBalance" => gpu_result = result
    /\ call[1] \in {"createGrant", "subtract"} => gpu_result = None /\ result = None
    /\ Len(gpu_event_log) = Len(event_log)

\* both ledgers hold three events recorded out of timestamp order; a query
\* returned the same positive balance on both after a positive spend, and
\* another timestamp makes both raise
C20_Witness ==
    /\ call[1] = "getBalance"
    /\ Len(gpu_event_log) = 3
    /\ gpu_result = result
    /\ result # InsufficientCreditException
    /\ result[2] > 0
    /\ \E i, j \in 1 .. 3 : i < j /\ gpu_event_log[i].ts > gpu_event_log[j].ts
    /\ \E i \in 1 .. 3 :
          /\ ~IsGrantEvent(gpu_event_log[i])
          /\ gpu_event_log[i].amount > 0
          /\ gpu_event_log[i].ts <= call[2]
    /\ \E ts \in Timestamps :
          GpuGetBalance(gpu_event_log, ts) = InsufficientCreditException

====
